---------------------------- MODULE Spec2Model ----------------------------
(***************************************************************************)
(* Layer 8 pattern-substitution codec of the COBOL protocol engine         *)
(* (src/extreme_engine.py): the GlobalPatternRegistry, the                 *)
(* Layer8UltraExtremeMapper and the ExtremeCobolEngine wrapper.            *)
(*                                                                         *)
(* Bytes are the integers 0..255 and byte strings are sequences of them.   *)
(* A Python dict is a sequence of <<key, value>> pairs in insertion order  *)
(* (the order sorted() and serialize() iterate in).  Offsets into byte     *)
(* strings are 0-based as in the source; the byte at offset i of d is      *)
(* d[i + 1].                                                               *)
(***************************************************************************)
EXTENDS Integers, Sequences, FiniteSets, TLC

VARIABLES
    pattern_to_id,   \* GlobalPatternRegistry.pattern_to_id
    id_to_pattern,   \* GlobalPatternRegistry.id_to_pattern
    next_id,         \* GlobalPatternRegistry._next_id
    prov,            \* history: how the registry's content came about
    call,            \* the most recent registry call and its outcome
    pc,              \* position of the single caller thread
    mode,            \* "codec": Layer8 mapper called directly; "block": through ExtremeCobolEngine
    data,            \* the input of the compress call in progress
    i,               \* compress: scan offset into data
    output,          \* compress: bytes emitted so far
    stream,          \* the compressed bytes returned / later handed to decompress
    meta,            \* the CompressionMetadata returned with them
    pipeline,        \* the external pipeline configured in the engine (self.inner)
    result           \* outcome of the decompress call

vars == << pattern_to_id, id_to_pattern, next_id, prov, call, pc, mode, data,
           i, output, stream, meta, pipeline, result >>

(***************************************************************************)
(* Bounds of the model.                                                    *)
(***************************************************************************)
MaxReg == 2        \* entries held by either map of the registry
MaxDataLen == 2    \* length of the enumerated compress inputs
MaxSpin == 3       \* output bytes tracked while the scan does not advance

(***************************************************************************)
(* Program constants.                                                      *)
(***************************************************************************)
ESCAPE_BYTE == 254
L8_ULTRA_EXTREME_MAPPING == 8
L3_DELTA_ENCODING == 3

(***************************************************************************)
(* Byte strings.                                                           *)
(***************************************************************************)
Take(s, n) == SubSeq(s, 1, IF n < Len(s) THEN n ELSE Len(s))
Drop(s, n) == SubSeq(s, n + 1, Len(s))

Max(a, b) == IF a >= b THEN a ELSE b

\* struct.pack(">I", n)
PackU32(n) ==
    << (n \div 16777216) % 256, (n \div 65536) % 256, (n \div 256) % 256, n % 256 >>

\* struct.unpack(">I", b)[0], b of exactly four bytes
UnpackU32(b) == b[1] * 16777216 + b[2] * 65536 + b[3] * 256 + b[4]

(***************************************************************************)
(* Python dicts as insertion-ordered sequences of <<key, value>>.          *)
(***************************************************************************)
DictHas(d, k) == \E n \in 1..Len(d) : d[n][1] = k

DictGet(d, k) == d[CHOOSE n \in 1..Len(d) : d[n][1] = k][2]

\* d[k] = v : an existing key keeps its place, a new key goes last
DictSet(d, k, v) ==
    IF DictHas(d, k)
    THEN [n \in 1..Len(d) |-> IF d[n][1] = k THEN <<k, v>> ELSE d[n]]
    ELSE Append(d, <<k, v>>)

DictKeys(d) == { d[n][1] : n \in 1..Len(d) }
DictValues(d) == { d[n][2] : n \in 1..Len(d) }
DictItems(d) == { d[n] : n \in 1..Len(d) }

(***************************************************************************)
(* GlobalPatternRegistry.  A registry value is the record of its three     *)
(* fields.                                                                 *)
(***************************************************************************)
EmptyRegistry == [pattern_to_id |-> <<>>, id_to_pattern |-> <<>>, next_id |-> 0]

Registry == [pattern_to_id |-> pattern_to_id, id_to_pattern |-> id_to_pattern,
             next_id |-> next_id]

\* register(pattern): the registry after the call
RegisterReg(reg, pattern) ==
    IF DictHas(reg.pattern_to_id, pattern)
    THEN reg
    ELSE [pattern_to_id |-> DictSet(reg.pattern_to_id, pattern, reg.next_id),
          id_to_pattern |-> DictSet(reg.id_to_pattern, reg.next_id, pattern),
          next_id |-> reg.next_id + 1]

\* register(pattern): the identifier returned
RegisterRet(reg, pattern) ==
    IF DictHas(reg.pattern_to_id, pattern)
    THEN DictGet(reg.pattern_to_id, pattern)
    ELSE reg.next_id

\* serialize(): count, then one record per item of id_to_pattern
RECURSIVE SerializeItems(_)
SerializeItems(items) ==
    IF items = <<>>
    THEN <<>>
    ELSE PackU32(items[1][1]) \o PackU32(Len(items[1][2])) \o items[1][2]
         \o SerializeItems(Tail(items))

Serialize(reg) == PackU32(Len(reg.id_to_pattern)) \o SerializeItems(reg.id_to_pattern)

\* DeserializeNextId with the counter set to the identifier seen instead of
\* one above it
DeserializeNextIdNotAbove(cur, pid) == Max(cur, pid)

\* the next-identifier update of deserialize's loop body
DeserializeNextId(cur, pid) == Max(cur, pid + 1)

\* deserialize's loop: `count` records still to read from `buf`.  A read of
\* four bytes that returns fewer makes struct.unpack raise struct.error; the
\* read of the pattern returns what is left when less than `length` remains.
RECURSIVE DeserializeLoop(_, _, _)
DeserializeLoop(reg, buf, count) ==
    IF count = 0
    THEN [reg |-> reg, outcome |-> "ok"]
    ELSE IF Len(buf) < 4
    THEN [reg |-> reg, outcome |-> "struct.error"]
    ELSE IF Len(buf) < 8
    THEN [reg |-> reg, outcome |-> "struct.error"]
    ELSE LET pid == UnpackU32(SubSeq(buf, 1, 4))
             length == UnpackU32(SubSeq(buf, 5, 8))
             rest == Drop(buf, 8)
             pat == Take(rest, length)
             reg2 == [pattern_to_id |-> DictSet(reg.pattern_to_id, pat, pid),
                      id_to_pattern |-> DictSet(reg.id_to_pattern, pid, pat),
                      next_id |-> DeserializeNextId(reg.next_id, pid)]
         IN  DeserializeLoop(reg2, Drop(rest, length), count - 1)

\* deserialize(data): the registry after the call and how the call ended
Deserialize(reg, bytes) ==
    IF Len(bytes) = 0
    THEN [reg |-> reg, outcome |-> "ok"]
    ELSE IF Len(bytes) < 4
    THEN [reg |-> reg, outcome |-> "struct.error"]
    ELSE DeserializeLoop(reg, Drop(bytes, 4), UnpackU32(SubSeq(bytes, 1, 4)))

(***************************************************************************)
(* Collaborators of the engine module that extreme_engine.py imports:      *)
(* VarIntCodec, hashlib.sha256 and the CompressionMetadata record.         *)
(***************************************************************************)
\* VarIntCodec.encode: seven bits per byte, low group first, the top bit of
\* a byte set when another byte follows
RECURSIVE VarIntEncode(_)
VarIntEncode(n) ==
    IF n < 128 THEN << n >> ELSE << (n % 128) + 128 >> \o VarIntEncode(n \div 128)

\* Python integers have no width.  Decoded values from HugeId on are kept
\* as HugeId: all of them lie above every identifier a registry of this
\* model holds, so a lookup treats them alike.
HugeId == 8388608

Clip(n) == IF n >= HugeId THEN HugeId ELSE n

\* VarIntCodec.decode(data, offset): the value and the bytes consumed, or
\* ok = FALSE when the buffer ends before a byte without the top bit
RECURSIVE VarIntDecode(_, _)
VarIntDecode(bytes, offset) ==
    IF offset >= Len(bytes)
    THEN [ok |-> FALSE, value |-> 0, consumed |-> 0]
    ELSE LET b == bytes[offset + 1] IN
         IF b < 128
         THEN [ok |-> TRUE, value |-> b, consumed |-> 1]
         ELSE LET r == VarIntDecode(bytes, offset + 1) IN
              [ok |-> r.ok, value |-> Clip((b % 128) + 128 * r.value),
               consumed |-> r.consumed + 1]

\* hashlib.sha256(data).digest(): collision resistance is taken as
\* injectivity, so the digest of d is d itself under a tag
Digest(d) == << "sha256", d >>

\* CompressionMetadata(...) with the fields this module sets or reads; the
\* ratio original_size / compressed_size is kept as the pair of its terms
Metadata(osize, csize, layers, hash) ==
    [block_id |-> 0,
     original_size |-> osize,
     compressed_size |-> csize,
     compression_ratio |-> IF csize > 0 THEN << osize, csize >> ELSE << 1, 1 >>,
     layers_applied |-> layers,
     integrity_hash |-> hash]

NoMetadata == Metadata(0, 0, <<>>, <<>>)

(***************************************************************************)
(* Layer8UltraExtremeMapper.compress                                       *)
(***************************************************************************)
\* SortKey with the sign lost: shortest patterns first
SortKeyAscending(kv) == Len(kv[1])

\* the sort key of compress: key=lambda kv: -len(kv[0])
SortKey(kv) == 0 - Len(kv[1])

\* one insertion of a stable sort: kv goes behind every item whose key is
\* not greater than its own
RECURSIVE InsertSorted(_, _)
InsertSorted(sorted, kv) ==
    IF sorted = <<>>
    THEN << kv >>
    ELSE IF SortKey(sorted[1]) <= SortKey(kv)
    THEN << sorted[1] >> \o InsertSorted(Tail(sorted), kv)
    ELSE << kv >> \o sorted

\* sorted(self.registry.pattern_to_id.items(), key=...): Python's sort is stable
RECURSIVE SortedPatterns(_)
SortedPatterns(items) ==
    IF items = <<>>
    THEN <<>>
    ELSE InsertSorted(SortedPatterns(SubSeq(items, 1, Len(items) - 1)), items[Len(items)])

\* data.startswith(pattern, offset)
StartsWith(bytes, pattern, offset) ==
    /\ offset + Len(pattern) <= Len(bytes)
    /\ SubSeq(bytes, offset + 1, offset + Len(pattern)) = pattern

\* the for loop over sorted_patterns: the index of the first item that
\* matches at `offset`, 0 when the loop ends without a break
FirstMatch(sorted, bytes, offset) ==
    IF \E n \in 1..Len(sorted) : StartsWith(bytes, sorted[n][1], offset)
    THEN CHOOSE n \in 1..Len(sorted) :
            /\ StartsWith(bytes, sorted[n][1], offset)
            /\ \A m \in 1..(n - 1) : ~StartsWith(bytes, sorted[m][1], offset)
    ELSE 0

\* MatchAdvance moving the scan by one byte whatever the pattern's length
MatchAdvanceOne(pattern) == 1

\* how far a substituted pattern moves the scan: i += len(pattern)
MatchAdvance(pattern) == Len(pattern)

\* what is appended when no pattern matched: output.append(data[i])
LiteralEmit(byte) == << byte >>

\* one iteration of the while loop at offset `offset`: the bytes appended to
\* output and the increment of i
ScanIteration(p2i, bytes, offset) ==
    LET sorted == SortedPatterns(p2i)
        m == FirstMatch(sorted, bytes, offset)
    IN  IF m # 0
        THEN [replaced |-> TRUE,
              emit |-> << ESCAPE_BYTE >> \o VarIntEncode(sorted[m][2]),
              adv |-> MatchAdvance(sorted[m][1])]
        ELSE [replaced |-> FALSE,
              emit |-> LiteralEmit(bytes[offset + 1]),
              adv |-> 1]

\* the metadata compress returns
CompressMetadata(bytes, compressed) ==
    Metadata(Len(bytes), Len(compressed), << L8_ULTRA_EXTREME_MAPPING >>, Digest(bytes))

(***************************************************************************)
(* Layer8UltraExtremeMapper.decompress                                     *)
(***************************************************************************)
\* the while loop from offset `offset` with `out` reconstructed so far
RECURSIVE DecompressLoop(_, _, _, _)
DecompressLoop(i2p, bytes, offset, out) ==
    IF offset >= Len(bytes)
    THEN [status |-> "ok", out |-> out]
    ELSE LET byte == bytes[offset + 1] IN
         IF byte = ESCAPE_BYTE
         THEN LET dec == VarIntDecode(bytes, offset + 1) IN
              IF ~dec.ok
              THEN [status |-> "MalformedStream", out |-> <<>>]
              ELSE IF ~DictHas(i2p, dec.value)
              THEN [status |-> "KeyError", out |-> <<>>]
              ELSE DecompressLoop(i2p, bytes, offset + 1 + dec.consumed,
                                  out \o DictGet(i2p, dec.value))
         ELSE DecompressLoop(i2p, bytes, offset + 1, out \o << byte >>)

\* IntegrityGate with the digest comparison left out
IntegrityGateSkipped(r, md) == r

\* the integrity gate at the end of decompress
IntegrityGate(r, md) ==
    IF r.status = "ok" /\ md.integrity_hash # <<>> /\ Digest(r.out) # md.integrity_hash
    THEN [status |-> "IntegrityError", out |-> <<>>]
    ELSE r

Decompress(i2p, bytes, md) == IntegrityGate(DecompressLoop(i2p, bytes, 0, <<>>), md)

(***************************************************************************)
(* The external pipeline (engine.CobolEngine, held as self.inner), known   *)
(* here by its contract: compress_block(bytes) -> (bytes, metadata) and    *)
(* decompress_block(bytes, metadata) -> bytes, the second undoing the      *)
(* first by the layers the metadata lists.  Two pipelines stand for it:    *)
(* one that applies no layer and one that delta-encodes (which leaves      *)
(* some inputs unchanged and changes others).                              *)
(***************************************************************************)
Pipelines == { "passthrough", "delta" }

DeltaEncode(x) ==
    [k \in 1..Len(x) |-> IF k = 1 THEN x[1] ELSE (x[k] - x[k - 1]) % 256]

RECURSIVE DeltaDecodeFrom(_, _)
DeltaDecodeFrom(prev, y) ==
    IF y = <<>>
    THEN <<>>
    ELSE << (prev + y[1]) % 256 >> \o DeltaDecodeFrom((prev + y[1]) % 256, Tail(y))

DeltaDecode(y) == DeltaDecodeFrom(0, y)

\* self.inner.compress_block(bytes)
InnerCompressBlock(pl, bytes) ==
    IF pl = "delta"
    THEN [out |-> DeltaEncode(bytes),
          meta |-> Metadata(Len(bytes), Len(bytes), << L3_DELTA_ENCODING >>, Digest(bytes))]
    ELSE [out |-> bytes,
          meta |-> Metadata(Len(bytes), Len(bytes), <<>>, Digest(bytes))]

\* self.inner.decompress_block(bytes, metadata)
InnerDecompressBlock(pl, bytes, md) ==
    IF pl = "delta" /\ \E k \in 1..Len(md.layers_applied) :
                            md.layers_applied[k] = L3_DELTA_ENCODING
    THEN [status |-> "ok", out |-> DeltaDecode(bytes)]
    ELSE [status |-> "ok", out |-> bytes]

(***************************************************************************)
(* ExtremeCobolEngine                                                      *)
(***************************************************************************)
\* the metadata of the branch final_out == l8_out
CollapsedMetadata(l8_meta, bytes) ==
    [l8_meta EXCEPT !.original_size = Len(bytes), !.integrity_hash = Digest(bytes)]

\* MergedMetadata that keeps the inner engine's original_size
MergedMetadataStaleSize(final_meta, bytes) ==
    [final_meta EXCEPT
        !.layers_applied = << L8_ULTRA_EXTREME_MAPPING >> \o @,
        !.integrity_hash = Digest(bytes)]

\* the metadata of the other branch: final_meta with L8 put in front
MergedMetadata(final_meta, bytes) ==
    [final_meta EXCEPT
        !.layers_applied = << L8_ULTRA_EXTREME_MAPPING >> \o @,
        !.original_size = Len(bytes),
        !.integrity_hash = Digest(bytes)]

\* compress_block after self.layer8.compress(data) returned (l8_out, l8_meta)
ComposeBlock(pl, bytes, l8_out, l8_meta) ==
    LET inner == InnerCompressBlock(pl, l8_out) IN
    IF inner.out = l8_out
    THEN [out |-> l8_out, meta |-> CollapsedMetadata(l8_meta, bytes)]
    ELSE [out |-> inner.out, meta |-> MergedMetadata(inner.meta, bytes)]

\* the copy of the metadata with L8 stripped from layers_applied
StripLayer8(md) ==
    [md EXCEPT !.layers_applied =
        SelectSeq(@, LAMBDA l : l # L8_ULTRA_EXTREME_MAPPING)]

\* decompress_block(data, metadata): Layer 8 is undone first, on the bytes
\* as given, and what it returns goes to the inner engine; an exception of
\* the Layer 8 step ends the call
DecompressBlock(i2p, pl, bytes, md) ==
    LET l8 == Decompress(i2p, bytes, md) IN
    IF l8.status # "ok"
    THEN l8
    ELSE InnerDecompressBlock(pl, l8.out, StripLayer8(md))

(***************************************************************************)
(* Inputs of the calls.                                                    *)
(***************************************************************************)
\* patterns an operator registers: the empty one, one shorter than its
\* pointer, two-byte and four-byte ones, and the marker byte itself
Patterns == { <<>>, << 65 >>, << 65, 0 >>, << 254 >>, << 65, 65, 65, 65 >> }

\* patterns the registries that snapshots are shipped from were trained on
SnapshotPatterns == { << 65 >>, << 65, 0 >>, << 254 >> }

\* identifiers of hand-built one-record snapshots (a two-byte varint)
WideIds == { 128 }

DataBytes == { 0, 65, 254 }

ExampleData == << 65, 65, 65, 65, 66, 67, 65, 65, 65, 65 >>

Inputs == UNION { [1..n -> DataBytes] : n \in 0..MaxDataLen } \cup { ExampleData }

\* bytes a single-byte change of a compressed stream writes
TamperBytes == { 0, 1, 65, 254 }

\* the orders in which up to MaxReg distinct patterns get registered
TrainingRuns ==
    { ps \in UNION { [1..n -> SnapshotPatterns] : n \in 0..MaxReg } :
        \A a, b \in 1..Len(ps) : a # b => ps[a] # ps[b] }

RECURSIVE RegisterAll(_, _)
RegisterAll(reg, ps) ==
    IF ps = <<>> THEN reg ELSE RegisterAll(RegisterReg(reg, ps[1]), Tail(ps))

\* where a cut at `cut` bytes falls in a snapshot whose records are `items`
\* and whose records so far end at offset `o`
RECURSIVE CutKindFrom(_, _, _)
CutKindFrom(items, o, cut) ==
    IF items = <<>> THEN "full"
    ELSE IF cut = o THEN "cut_boundary"
    ELSE IF cut < o + 4 THEN "cut_id"
    ELSE IF cut < o + 8 THEN "cut_len"
    ELSE IF cut < o + 8 + Len(items[1][2]) THEN "cut_pat"
    ELSE CutKindFrom(Tail(items), o + 8 + Len(items[1][2]), cut)

CutKind(items, cut) ==
    IF cut = 0 THEN "empty"
    ELSE IF cut < 4 THEN "cut_count"
    ELSE CutKindFrom(items, 4, cut)

NoCall == [op |-> "none", kind |-> "", outcome |-> "", arg |-> <<>>, ret |-> 0,
           saved |-> EmptyRegistry]

NoResult == [status |-> "none", out |-> <<>>]

(***************************************************************************)
(* The state machine.                                                      *)
(***************************************************************************)
Init ==
    /\ pattern_to_id = <<>>
    /\ id_to_pattern = <<>>
    /\ next_id = 0
    /\ prov = "registered"
    /\ call = NoCall
    /\ pc = "idle"
    /\ mode = "none"
    /\ data = <<>>
    /\ i = 0
    /\ output = <<>>
    /\ stream = <<>>
    /\ meta = NoMetadata
    /\ pipeline = "none"
    /\ result = NoResult

codecVars == << mode, data, i, output, stream, meta, pipeline, result >>
registryVars == << pattern_to_id, id_to_pattern, next_id, prov >>

WithinBound(reg) ==
    /\ Len(reg.pattern_to_id) <= MaxReg
    /\ Len(reg.id_to_pattern) <= MaxReg

SetRegistry(reg) ==
    /\ pattern_to_id' = reg.pattern_to_id
    /\ id_to_pattern' = reg.id_to_pattern
    /\ next_id' = reg.next_id

\* registry.register(p)
Register(p) ==
    /\ pc = "idle"
    /\ WithinBound(RegisterReg(Registry, p))
    /\ SetRegistry(RegisterReg(Registry, p))
    /\ call' = [NoCall EXCEPT !.op = "register",
                              !.kind = IF DictHas(pattern_to_id, p) THEN "known" ELSE "new",
                              !.outcome = "ok", !.arg = p,
                              !.ret = RegisterRet(Registry, p)]
    /\ pc' = "returned"
    /\ UNCHANGED << prov, codecVars >>

\* registry.deserialize(bytes), bytes the first `cut` bytes of the snapshot
\* serialize() gave on a registry trained by the registrations ps
DeserializeSnapshot(ps, cut) ==
    LET src == RegisterAll(EmptyRegistry, ps)
        bytes == Take(Serialize(src), cut)
        kind == CutKind(src.id_to_pattern, cut)
        r == Deserialize(Registry, bytes)
    IN  /\ pc = "idle"
        /\ WithinBound(r.reg)
        /\ SetRegistry(r.reg)
        /\ prov' = IF kind # "full" \/ prov = "foreign" THEN "foreign" ELSE "merged"
        /\ call' = [NoCall EXCEPT !.op = "deserialize", !.kind = kind,
                                  !.outcome = r.outcome, !.arg = bytes]
        /\ pc' = "returned"
        /\ UNCHANGED codecVars

\* registry.deserialize(bytes), bytes a well-formed snapshot of one record
\* that carries a wide identifier
DeserializeWide(pid, p) ==
    LET bytes == PackU32(1) \o PackU32(pid) \o PackU32(Len(p)) \o p
        r == Deserialize(Registry, bytes)
    IN  /\ pc = "idle"
        /\ WithinBound(r.reg)
        /\ SetRegistry(r.reg)
        /\ prov' = "foreign"
        /\ call' = [NoCall EXCEPT !.op = "deserialize", !.kind = "wide",
                                  !.outcome = r.outcome, !.arg = bytes]
        /\ pc' = "returned"
        /\ UNCHANGED codecVars

\* fresh = GlobalPatternRegistry(); fresh.deserialize(registry.serialize());
\* the caller goes on with the restored registry
Restore ==
    LET r == Deserialize(EmptyRegistry, Serialize(Registry))
    IN  /\ pc = "idle"
        /\ SetRegistry(r.reg)
        /\ prov' = IF prov = "registered" THEN "restored" ELSE prov
        /\ call' = [NoCall EXCEPT !.op = "restore", !.outcome = r.outcome,
                                  !.arg = Serialize(Registry), !.saved = Registry]
        /\ pc' = "returned"
        /\ UNCHANGED codecVars

\* Layer8UltraExtremeMapper.compress(d) is entered, directly (m = "codec") or
\* as the first statement of ExtremeCobolEngine.compress_block(d) (m = "block",
\* the engine holding the external pipeline pl)
BeginCompress(d, m, pl) ==
    /\ pc = "idle"
    /\ (m = "codec") = (pl = "none")
    /\ pc' = "scan"
    /\ mode' = m
    /\ pipeline' = pl
    /\ data' = d
    /\ i' = 0
    /\ output' = <<>>
    /\ UNCHANGED << registryVars, call, stream, meta, result >>

\* one iteration of compress's while loop
ScanStep ==
    /\ pc = "scan"
    /\ i < Len(data)
    /\ LET it == ScanIteration(pattern_to_id, data, i) IN
        /\ it.adv = 0 => Len(output) < MaxSpin
        /\ output' = output \o it.emit
        /\ i' = i + it.adv
    /\ UNCHANGED << registryVars, call, pc, mode, data, stream, meta, pipeline, result >>

\* the loop ends and compress returns to its caller
CompressReturn ==
    /\ pc = "scan"
    /\ mode = "codec"
    /\ i >= Len(data)
    /\ stream' = output
    /\ meta' = CompressMetadata(data, output)
    /\ pc' = "compressed"
    /\ UNCHANGED << registryVars, call, mode, data, i, output, pipeline, result >>

\* the loop ends, compress returns into compress_block, which runs the
\* inner engine and returns
CompressBlockReturn ==
    /\ pc = "scan"
    /\ mode = "block"
    /\ i >= Len(data)
    /\ LET r == ComposeBlock(pipeline, data, output, CompressMetadata(data, output)) IN
        /\ stream' = r.out
        /\ meta' = r.meta
    /\ pc' = "block_compressed"
    /\ UNCHANGED << registryVars, call, mode, data, i, output, pipeline, result >>

\* Layer8UltraExtremeMapper.decompress(stream, meta)
DecompressCall ==
    /\ pc = "compressed"
    /\ result' = Decompress(id_to_pattern, stream, meta)
    /\ pc' = "decompressed"
    /\ UNCHANGED << registryVars, call, mode, data, i, output, stream, meta, pipeline >>

\* the same call on the stream with the byte at offset k - 1 replaced by b
DecompressTampered(k, b) ==
    /\ pc = "compressed"
    /\ b # stream[k]
    /\ stream' = [stream EXCEPT ![k] = b]
    /\ result' = Decompress(id_to_pattern, stream', meta)
    /\ pc' = "tamper_decompressed"
    /\ UNCHANGED << registryVars, call, mode, data, i, output, meta, pipeline >>

\* ExtremeCobolEngine.decompress_block(stream, meta)
DecompressBlockCall ==
    /\ pc = "block_compressed"
    /\ result' = DecompressBlock(id_to_pattern, pipeline, stream, meta)
    /\ pc' = "block_decompressed"
    /\ UNCHANGED << registryVars, call, mode, data, i, output, stream, meta, pipeline >>

\* registry.register(p) while the caller holds a stream that compress
\* returned earlier; call.saved keeps the registry the stream was made against
RegisterKept(p) ==
    /\ pc \in { "compressed", "kept" }
    /\ WithinBound(RegisterReg(Registry, p))
    /\ SetRegistry(RegisterReg(Registry, p))
    /\ call' = [NoCall EXCEPT !.op = "register",
                              !.kind = IF DictHas(pattern_to_id, p) THEN "known" ELSE "new",
                              !.outcome = "ok", !.arg = p,
                              !.ret = RegisterRet(Registry, p),
                              !.saved = IF pc = "compressed" THEN Registry ELSE call.saved]
    /\ pc' = "kept"
    /\ UNCHANGED << prov, codecVars >>

\* registry.deserialize(bytes) while the caller holds such a stream, bytes the
\* whole snapshot serialize() gave on a registry trained by the registrations ps
DeserializeKept(ps) ==
    LET bytes == Serialize(RegisterAll(EmptyRegistry, ps))
        r == Deserialize(Registry, bytes)
    IN  /\ pc \in { "compressed", "kept" }
        /\ WithinBound(r.reg)
        /\ SetRegistry(r.reg)
        /\ prov' = IF prov = "foreign" THEN "foreign" ELSE "merged"
        /\ call' = [NoCall EXCEPT !.op = "deserialize", !.kind = "full",
                                  !.outcome = r.outcome, !.arg = bytes,
                                  !.saved = IF pc = "compressed" THEN Registry
                                            ELSE call.saved]
        /\ pc' = "kept"
        /\ UNCHANGED codecVars

\* Layer8UltraExtremeMapper.decompress(stream, meta) on the kept stream,
\* against the registry as it is now
DecompressKept ==
    /\ pc = "kept"
    /\ result' = Decompress(id_to_pattern, stream, meta)
    /\ pc' = "kept_decompressed"
    /\ UNCHANGED << registryVars, call, mode, data, i, output, stream, meta, pipeline >>

\* the caller takes the outcome and is ready for its next call
Finish ==
    /\ pc \in { "returned", "compressed", "block_compressed", "decompressed",
                "tamper_decompressed", "block_decompressed", "kept_decompressed" }
    /\ pc' = "idle"
    /\ call' = NoCall
    /\ mode' = "none"
    /\ data' = <<>>
    /\ i' = 0
    /\ output' = <<>>
    /\ stream' = <<>>
    /\ meta' = NoMetadata
    /\ pipeline' = "none"
    /\ result' = NoResult
    /\ UNCHANGED registryVars

Next ==
    \/ \E p \in Patterns : Register(p)
    \/ \E ps \in TrainingRuns :
          \E cut \in 0..Len(Serialize(RegisterAll(EmptyRegistry, ps))) :
              DeserializeSnapshot(ps, cut)
    \/ \E pid \in WideIds, p \in Patterns : DeserializeWide(pid, p)
    \/ Restore
    \/ \E d \in Inputs : BeginCompress(d, "codec", "none")
    \/ \E d \in Inputs, pl \in Pipelines : BeginCompress(d, "block", pl)
    \/ ScanStep
    \/ CompressReturn
    \/ CompressBlockReturn
    \/ DecompressCall
    \/ \E k \in 1..Len(stream), b \in TamperBytes : DecompressTampered(k, b)
    \/ DecompressBlockCall
    \/ Finish

Spec == Init /\ [][Next]_vars

\* the registry on its own: training, shipping and restoring, no codec call
NextRegistry ==
    \/ \E p \in Patterns : Register(p)
    \/ \E ps \in TrainingRuns :
          \E cut \in 0..Len(Serialize(RegisterAll(EmptyRegistry, ps))) :
              DeserializeSnapshot(ps, cut)
    \/ \E pid \in WideIds, p \in Patterns : DeserializeWide(pid, p)
    \/ Restore
    \/ Finish

SpecRegistry == Init /\ [][NextRegistry]_vars

\* a stream kept across later changes of the registry: training, shipping of
\* whole snapshots, compress, more training and shipping, then decompress
NextStable ==
    \/ \E p \in Patterns : Register(p)
    \/ \E ps \in TrainingRuns :
          DeserializeSnapshot(ps, Len(Serialize(RegisterAll(EmptyRegistry, ps))))
    \/ \E d \in Inputs : BeginCompress(d, "codec", "none")
    \/ ScanStep
    \/ CompressReturn
    \/ \E p \in Patterns : RegisterKept(p)
    \/ \E ps \in TrainingRuns : DeserializeKept(ps)
    \/ DecompressKept
    \/ Finish

SpecStable == Init /\ [][NextStable]_vars

\* compress on its own: training by register, then one call of compress run
\* to its return.  The interpreter keeps executing a call it has entered:
\* the loop takes its next iteration while it has one to take, and the
\* return follows the loop's exit.
NextCompress ==
    \/ \E p \in Patterns : Register(p)
    \/ \E d \in Inputs : BeginCompress(d, "codec", "none")
    \/ ScanStep
    \/ CompressReturn
    \/ Finish

SpecCompress ==
    Init /\ [][NextCompress]_vars /\ WF_vars(ScanStep) /\ WF_vars(CompressReturn)

(***************************************************************************)
(* Notions the properties below are stated in.                             *)
(***************************************************************************)
\* pattern_to_id and id_to_pattern are inverse maps of each other
Bijection ==
    /\ DictItems(id_to_pattern) = { << kv[2], kv[1] >> : kv \in DictItems(pattern_to_id) }
    /\ \A a, b \in DictItems(pattern_to_id) : a[2] = b[2] => a[1] = b[1]
    /\ \A a, b \in DictItems(id_to_pattern) : a[2] = b[2] => a[1] = b[1]

\* the registered patterns that occur in `bytes` at `offset`
MatchingAt(p2i, bytes, offset) ==
    { kv \in DictItems(p2i) : StartsWith(bytes, kv[1], offset) }

\* a longest one among the pairs of S
Longest(S) == CHOOSE kv \in S : \A other \in S : Len(other[1]) <= Len(kv[1])

\* how often byte b occurs in bytes
Occurrences(b, bytes) == Cardinality({ k \in 1..Len(bytes) : bytes[k] = b })

\* a step of the scan loop of compress
IsScanStep == pc = "scan" /\ pc' = "scan" /\ << i, output >>' # << i, output >>

\* what the Codec alone makes of the input in progress: decompress of what
\* compress returned for it
CodecRoundTrip == Decompress(id_to_pattern, output, CompressMetadata(data, output))


(***************************************************************************)
(* Properties.                                                             *)
(***************************************************************************)

\* C1: Codec round trip.  For every registry reached by register and
\* deserialize and every input, decompress of what compress returned, against
\* the same registry, returns the input - inputs that hold the marker byte
\* 0xFE where no pattern matches included.
C1_CodecRoundTrip ==
    pc = "decompressed" => (result.status = "ok" /\ result.out = data)

\* C2 as claimed: decompress of a compressed stream with exactly one byte
\* changed, under the original metadata, raises IntegrityViolation
\* (IntegrityError) or MalformedStream, and ends in no other way.
C2_TamperedStreamRaises ==
    pc = "tamper_decompressed" =>
        result.status \in { "IntegrityError", "MalformedStream" }

\* C2 as amended: decompress of a compressed stream with exactly one byte
\* changed raises IntegrityError, MalformedStream or the registry's NotFound
\* (KeyError), or returns exactly the original input (the changed stream being
\* another encoding of it); it never returns an output that differs from the
\* input.
C2_TamperedStreamNeverWrong ==
    pc = "tamper_decompressed" =>
        \/ result.status \in { "IntegrityError", "MalformedStream", "KeyError" }
        \/ result.status = "ok" /\ result.out = data

\* a changed stream that decodes to the input all the same
C2_TamperedStreamDecodes ==
    pc = "tamper_decompressed" /\ stream # output /\ result.status = "ok"

\* C3: registry bijection.  After any sequence of register calls and of
\* deserialize calls on snapshots that serialize() produced, pattern_to_id
\* and id_to_pattern are inverse maps of each other.
C3_RegistryBijection ==
    prov \in { "registered", "restored", "merged" } => Bijection

\* C4: serialization round trip.  For a registry built by register calls,
\* deserializing its serialize() output into a fresh registry gives the same
\* two maps; the next-identifier counter of the restored registry lies above
\* every stored identifier, and a later register of a new pattern returns an
\* identifier that no other entry holds.
C4_SerializationRoundTrip ==
    /\ (prov = "restored" /\ call.op = "restore") =>
          /\ call.outcome = "ok"
          /\ pattern_to_id = call.saved.pattern_to_id
          /\ id_to_pattern = call.saved.id_to_pattern
    /\ prov = "restored" =>
          /\ \A kv \in DictItems(id_to_pattern) : kv[1] < next_id
          /\ \A kv \in DictItems(pattern_to_id) : kv[2] < next_id
    /\ (prov = "restored" /\ call.op = "register" /\ call.kind = "new") =>
          /\ \A kv \in DictItems(id_to_pattern) : kv[1] = call.ret => kv[2] = call.arg
          /\ \A kv \in DictItems(pattern_to_id) : kv[2] = call.ret => kv[1] = call.arg

\* a new pattern registered on a restored registry that already holds one
C4_RegisterAfterRestore ==
    /\ prov = "restored"
    /\ call.op = "register"
    /\ call.kind = "new"
    /\ Len(id_to_pattern) >= 2

\* C5: Composer round trip.  decompress_block of what compress_block
\* returned gives back the input, whether the external pipeline changed the
\* intermediate bytes or not - stated for the inputs and registries on which
\* the Codec stage by itself round-trips, the external pipelines of the model
\* being invertible.
C5_BlockRoundTrip ==
    (pc = "block_decompressed" /\ CodecRoundTrip = [status |-> "ok", out |-> data])
        => (result.status = "ok" /\ result.out = data)

\* C6: literal escape.  A scan step at an offset where no registered pattern
\* matches and the input byte is the pointer marker appends two bytes, a
\* literal-escape marker and then the byte, never the bare marker.
C6_LiteralEscape ==
    [][(/\ IsScanStep
        /\ MatchingAt(pattern_to_id, data, i) = {}
        /\ data[i + 1] = ESCAPE_BYTE)
       => (/\ Len(output') = Len(output) + 2
           /\ output'[Len(output')] = ESCAPE_BYTE)]_vars

\* C7: deserialize of a snapshot cut inside a record (in the identifier, the
\* length or the pattern bytes) fails instead of returning normally.
C7_TruncatedSnapshotRejected ==
    (call.op = "deserialize" /\ call.kind \in { "cut_id", "cut_len", "cut_pat" })
        => call.outcome # "ok"

\* the scan step the greedy longest-match rule prescribes
GreedyStep ==
    LET M == MatchingAt(pattern_to_id, data, i) IN
    IF M # {}
    THEN /\ output' = output \o << ESCAPE_BYTE >> \o VarIntEncode(Longest(M)[2])
         /\ i' = i + Len(Longest(M)[1])
    ELSE /\ output' = output \o << data[i + 1] >>
         /\ i' = i + 1

\* the example: registry {AAAA -> 0}, input AAAABCAAAA
GreedyExample ==
    (/\ pc = "compressed"
     /\ data = ExampleData
     /\ DictItems(pattern_to_id) = { << << 65, 65, 65, 65 >>, 0 >> })
    => (/\ stream = << ESCAPE_BYTE, 0, 66, 67, ESCAPE_BYTE, 0 >>
        /\ meta.compressed_size = 6
        /\ meta.original_size = 10)

\* C8: greedy longest match.  Every scan step of compress substitutes the
\* longest registered pattern that occurs at the scan offset - marker, varint
\* identifier, advance by the pattern's length - or, when none occurs, emits
\* the one byte and advances by one; registry {AAAA -> 0} and input
\* AAAABCAAAA give [marker,0] B C [marker,0] with compressed_size 6.
C8_GreedyLongestMatch ==
    [][IsScanStep => GreedyStep]_vars /\ []GreedyExample

\* compress returned the example's encoding
C8_ExampleCompressed ==
    /\ pc = "compressed"
    /\ data = ExampleData
    /\ stream = << ESCAPE_BYTE, 0, 66, 67, ESCAPE_BYTE, 0 >>

\* C9 as claimed: for every registry and input the output of compress is at
\* most as long as the input plus one byte per marker byte in the input.
C9_BoundedExpansion ==
    pc = "compressed" => Len(stream) <= Len(data) + Occurrences(ESCAPE_BYTE, data)

\* every registered pattern is at least as long as the pointer that stands
\* for it: the marker byte and the varint of its identifier
PatternsCoverPointers ==
    \A kv \in DictItems(pattern_to_id) : Len(kv[1]) >= 1 + Len(VarIntEncode(kv[2]))

\* C9 as amended: when every registered pattern is at least as long as its
\* pointer (marker byte plus varint identifier), the output of compress is at
\* most as long as the input plus one byte per marker byte in the input.
C9_BoundedExpansionLongPatterns ==
    (pc = "compressed" /\ PatternsCoverPointers)
        => Len(stream) <= Len(data) + Occurrences(ESCAPE_BYTE, data)

\* a pattern under a two-byte identifier was substituted and the output is
\* shorter than the input
C9_WidePointerSubstituted ==
    /\ pc = "compressed"
    /\ PatternsCoverPointers
    /\ \E kv \in DictItems(pattern_to_id) : kv[2] >= 128
    /\ Len(stream) < Len(data)

\* C10: Composer metadata.  What compress_block returns carries
\* original_size = len(data) and integrity_hash = digest(data) in both
\* branches; when the external pipeline returned the intermediate bytes
\* unchanged it is the intermediate with the Codec's metadata, layers [L8];
\* otherwise the pipeline's bytes with the pipeline's metadata and L8 put
\* once in front of its layers.
C10_ComposerMetadata ==
    pc = "block_compressed" =>
        LET inner == InnerCompressBlock(pipeline, output)
            l8_meta == CompressMetadata(data, output)
        IN  /\ meta.original_size = Len(data)
            /\ meta.integrity_hash = Digest(data)
            /\ IF inner.out = output
               THEN /\ stream = output
                    /\ meta.layers_applied = << L8_ULTRA_EXTREME_MAPPING >>
                    /\ meta.compressed_size = l8_meta.compressed_size
                    /\ meta.compression_ratio = l8_meta.compression_ratio
               ELSE /\ stream = inner.out
                    /\ meta.layers_applied =
                          << L8_ULTRA_EXTREME_MAPPING >> \o inner.meta.layers_applied
                    /\ meta.compressed_size = inner.meta.compressed_size
                    /\ meta.compression_ratio = inner.meta.compression_ratio

\* the pipeline changed the bytes of an intermediate whose length is not the
\* input's
C10_MergedAfterSubstitution ==
    /\ pc = "block_compressed"
    /\ stream # output
    /\ Len(output) # Len(data)

\* every identifier bound before the step is bound to the same pattern after it
StableIds ==
    \A kv \in DictItems(id_to_pattern) :
        /\ DictHas(id_to_pattern', kv[1])
        /\ DictGet(id_to_pattern', kv[1]) = kv[2]

\* decompress of the kept stream ends as it would have against the registry
\* the stream was compressed against
KeptStreamDecodesTheSame ==
    (pc = "kept_decompressed" /\ prov # "foreign")
        => result = Decompress(call.saved.id_to_pattern, stream, meta)

\* C11: append-only registry, stable identifiers.  Along any sequence of
\* register calls and of deserialize calls on snapshots that serialize()
\* produced, an identifier that lookup resolves to a pattern resolves to that
\* pattern in every later state - no step removes an entry or rebinds an
\* identifier - and so a stream compressed against an earlier state of the
\* registry decompresses to the same bytes against every later state.
C11_StableIdentifiers ==
    [][prov' # "foreign" => StableIds]_vars /\ []KeptStreamDecodesTheSame

\* the scan step moves the scan offset forward
ScanAdvances == i' > i

\* a call of compress that was entered returns
CompressReturns == (pc = "scan") ~> (pc = "compressed")

\* C12: compress terminates.  For every registry built by register - the
\* empty pattern, which register accepts, included - and every input, each
\* iteration of the scan loop strictly advances the scan offset, and so every
\* call of compress returns its (output, metadata) pair.
C12_CompressTerminates ==
    [][IsScanStep => ScanAdvances]_vars /\ CompressReturns

=============================================================================
